---- MODULE Spec2Model ----
(***************************************************************************)
(* State-machine model of advanced_safety_system.py: the module-level      *)
(* state, the body of the main loop (sensor checks, per-face analysis,     *)
(* drowsiness/yawn alert logic) and the keyboard commands.                 *)
(*                                                                         *)
(* Units.  Ratios (EAR, MAR) are in hundredths, MAR_MULTIPLIER in tenths,  *)
(* tilt in whole degrees, the gas reading in ADC counts (value * 1024),    *)
(* time in whole seconds of time.time() (seconds since the epoch, so       *)
(* positive).  The smoothed MAR and the calibration baseline are exact     *)
(* fractions <<numerator, denominator>> in lowest terms.                   *)
(* An optional value (None in the source) is the empty sequence, a present *)
(* value v is <<v>> (or the fraction itself).                              *)
(* A text is a sequence of tokens: words and the separator " ".            *)
(* The sound file is taken to be loaded (beep_sound is not None).          *)
(***************************************************************************)
EXTENDS Integers, Sequences, FiniteSets, TLC

\* ------------------------------------------------------------ constants
ALCOHOL_THRESHOLD == 500
TILT_THRESHOLD == 45
BEEP_DURATION == 6
EYE_AR_THRESH == 25
EYE_AR_CONSEC_FRAMES == 20
MAR_MULTIPLIER == 17
MAR_SMOOTH_WIN == 10
CALIB_FRAMES == 30
\* "You have 20 seconds to read it aloud..."
CHALLENGE_SECONDS == 20

\* --------------------------------------------------------------- bounds
\* The clock stops advancing at MaxTime.
MaxTime == 13
\* The largest advance of the clock in one step.
MaxStep == 3
\* COUNTER is not allowed to grow beyond EYE_AR_CONSEC_FRAMES + CounterSlack.
CounterSlack == 2
\* The largest number of faces the detector reports in one frame.
MaxFaces == 2
\* The notification counters of the observer saturate here.
MaxCount == 2
\* The longest heard text, in words, of the scoring specification.
MaxHeard == 4
\* The calibration samples still to be taken when the calibration
\* specification starts.
CalibLeft == 3
\* The clock of the unanswered-challenge specification stops advancing here.
MaxChallengeTime == 22

None == << >>
Some(v) == <<v>>

VARIABLES
    \* module-level program state
    alert_active, beep_start_time, buzzer_active,
    alcohol_test_active, test_text, alcohol_test_failed, accident_detected,
    last_gps_coords, COUNTER, lip_hist, calib_base, calib_count,
    drowsiness_email_sent, trigger_alert, is_tilted,
    \* hardware handles (None when initialisation failed)
    alcohol_sensor, accelerometer, gps_serial,
    \* environment: the mail server accepts messages (constant over a session)
    smtp_up,
    \* environment: the clock, the tone channel, the port calls of the last step
    now, tone, cmds,
    \* position in the loop: "sense" (top of the loop), "key" (at waitKey), "done"
    pc,
    \* observers (not program state)
    lowFrames, tiltSeen, accidentMails, episodeMails, failSeen, heard,
    lastKey, runStart, gpsRead, unavail, alcoholIn, runMails

progVars == <<alert_active, beep_start_time, buzzer_active,
              alcohol_test_active, test_text, alcohol_test_failed, accident_detected,
              last_gps_coords, COUNTER, lip_hist, calib_base, calib_count,
              drowsiness_email_sent, trigger_alert, is_tilted>>
handles == <<alcohol_sensor, accelerometer, gps_serial>>
env == <<handles, smtp_up>>
observers == <<lowFrames, tiltSeen, accidentMails, episodeMails, failSeen, heard,
               lastKey, runStart, gpsRead, unavail, alcoholIn, runMails>>
vars == <<progVars, env, now, tone, cmds, pc, observers>>

\* ------------------------------------------------------------ fractions
RECURSIVE Gcd(_, _)
Gcd(a, b) == IF b = 0 THEN a ELSE Gcd(b, a % b)

Frac(n, d) == LET g == Gcd(n, d) IN IF g = 0 THEN <<0, 1>> ELSE <<n \div g, d \div g>>

FracAdd(p, q) == Frac(p[1] * q[2] + q[1] * p[2], p[2] * q[2])

FracHalf(p) == Frac(p[1], 2 * p[2])

\* p > q
FracGt(p, q) == p[1] * q[2] > q[1] * p[2]

RECURSIVE SeqSum(_)
SeqSum(s) == IF s = << >> THEN 0 ELSE Head(s) + SeqSum(Tail(s))

\* np.mean(lip_hist)
Mean(s) == Frac(SeqSum(s), Len(s))

\* ------------------------------------------------- the program's state
\* The program state a handler works on; cmds collects the port calls it makes.
St ==
    [alert_active |-> alert_active, beep_start_time |-> beep_start_time,
     buzzer_active |-> buzzer_active, alcohol_test_active |-> alcohol_test_active,
     test_text |-> test_text, alcohol_test_failed |-> alcohol_test_failed,
     accident_detected |-> accident_detected, last_gps_coords |-> last_gps_coords,
     COUNTER |-> COUNTER, lip_hist |-> lip_hist, calib_base |-> calib_base,
     calib_count |-> calib_count, drowsiness_email_sent |-> drowsiness_email_sent,
     trigger_alert |-> trigger_alert, is_tilted |-> is_tilted,
     tone |-> tone, smtp_up |-> smtp_up, cmds |-> << >>]

Commit(s) ==
    /\ alert_active' = s.alert_active
    /\ beep_start_time' = s.beep_start_time
    /\ buzzer_active' = s.buzzer_active
    /\ alcohol_test_active' = s.alcohol_test_active
    /\ test_text' = s.test_text
    /\ alcohol_test_failed' = s.alcohol_test_failed
    /\ accident_detected' = s.accident_detected
    /\ last_gps_coords' = s.last_gps_coords
    /\ COUNTER' = s.COUNTER
    /\ lip_hist' = s.lip_hist
    /\ calib_base' = s.calib_base
    /\ calib_count' = s.calib_count
    /\ drowsiness_email_sent' = s.drowsiness_email_sent
    /\ trigger_alert' = s.trigger_alert
    /\ is_tilted' = s.is_tilted
    /\ tone' = s.tone
    /\ cmds' = s.cmds

\* ------------------------------------------- alert and buzzer functions
play_beep_alert(s) == [s EXCEPT !.tone = TRUE, !.cmds = Append(@, "play")]

stop_beep_alert(s) == [s EXCEPT !.tone = FALSE, !.cmds = Append(@, "stop")]

activate_external_buzzer(s) ==
    [s EXCEPT !.buzzer_active = TRUE, !.cmds = Append(@, "buzzer_on")]

deactivate_external_buzzer(s) ==
    [s EXCEPT !.buzzer_active = FALSE, !.cmds = Append(@, "buzzer_off")]

\* The caller ignores the result (sent or not): only the call is recorded.
send_emergency_email(s, incident_type) == [s EXCEPT !.cmds = Append(@, incident_type)]

\* The value send_emergency_email returns: True when the server took the
\* message, False when a call of the try block raised.
email_sent(s) == s.smtp_up

MailAccident == "mail_ACCIDENT"
MailDrowsiness == "mail_DROWSINESS"
MailAlcohol == "mail_ALCOHOL"

\* How often c occurs in the command sequence q.
Count(q, c) == Cardinality({i \in 1..Len(q) : q[i] = c})

\* ------------------------------------------------------- sensor samplers
\* A gas reading: [err |-> the read raises, adc |-> alcohol_sensor.value * 1024].
check_alcohol_level(sensor, reading) ==
    IF sensor = None THEN FALSE
    ELSE IF reading.err THEN FALSE
    ELSE reading.adc > ALCOHOL_THRESHOLD

\* Mutant: a read that raises is reported as a tilt.
check_tilt_angle_ErrorTilts(acc, reading) ==
    IF acc = None THEN <<FALSE, 0>>
    ELSE IF reading.err THEN <<TRUE, 0>>
    ELSE <<reading.angle > TILT_THRESHOLD, reading.angle>>

\* A tilt reading: [err |-> get_axes raises, angle |-> degrees(arccos(z / |a|))].
\* The result is <<is_tilted, tilt_angle>>.
check_tilt_angle(acc, reading) ==
    IF acc = None THEN <<FALSE, 0>>
    ELSE IF reading.err THEN <<FALSE, 0>>
    ELSE <<reading.angle > TILT_THRESHOLD, reading.angle>>

\* ------------------------------------------------------- sobriety test
words == <<"apple", "banana", "computer", "elephant", "freedom",
           "guitar", "hospital", "internet", "jacket", "kitchen">>

\* ' '.join(ws): the words with one separator between neighbours.
RECURSIVE Join(_)
Join(ws) ==
    IF Len(ws) <= 1 THEN ws ELSE <<Head(ws), " ">> \o Join(Tail(ws))

\* random.sample(words, 4): four words at pairwise distinct positions of the
\* list, in any order. Only the first n words are drawn from.
Samples(n) ==
    {<<words[i], words[j], words[k], words[l]>> :
        <<i, j, k, l>> \in {q \in (1..n) \X (1..n) \X (1..n) \X (1..n) :
                              Cardinality({q[1], q[2], q[3], q[4]}) = 4}}

generate_random_text(sample) == Join(sample)

\* str.lower() on a token: the recogniser may capitalise a word.
Lower(tok) ==
    CASE tok = "Apple" -> "apple"
      [] tok = "Banana" -> "banana"
      [] tok = "Computer" -> "computer"
      [] tok = "Elephant" -> "elephant"
      [] tok = "Freedom" -> "freedom"
      [] OTHER -> tok

LowerText(text) == [i \in 1..Len(text) |-> Lower(text[i])]

\* set(text.split()): the set of the tokens that are not separators.
SplitSet(text) == {text[i] : i \in {j \in 1..Len(text) : text[j] # " "}}

\* Mutant: the ratio has to exceed 0.75.
verify_speech_Strict(expected_text, capture) ==
    IF capture.kind # "text" THEN FALSE
    ELSE LET words_expected == SplitSet(LowerText(expected_text))
             words_spoken == SplitSet(LowerText(capture.text))
         IN IF Cardinality(words_expected) = 0 THEN FALSE
            ELSE 100 * Cardinality(words_expected \cap words_spoken)
                    > 75 * Cardinality(words_expected)

\* What the microphone and the recogniser deliver: kind is "text" (with the
\* transcript), "timeout" (sr.WaitTimeoutError), "unknown" (sr.UnknownValueError)
\* or "error" (any other exception).
verify_speech(expected_text, capture) ==
    IF capture.kind # "text" THEN FALSE
    ELSE LET words_expected == SplitSet(LowerText(expected_text))
             words_spoken == SplitSet(LowerText(capture.text))
         IN IF Cardinality(words_expected) = 0 THEN FALSE   \* ZeroDivisionError, caught
            ELSE 100 * Cardinality(words_expected \cap words_spoken)
                    >= 75 * Cardinality(words_expected)

\* ------------------------------------------------------------------ GPS
\* A coordinate field of a GGA sentence: empty, not a number (float() raises),
\* or degrees and whole minutes.  A parsed coordinate is in minutes of arc
\* (degrees + minutes / 60, times 60), negative for S and W.
\* A line: kind "raise" (readline or decode raises), "other" (not a GGA
\* sentence, or an empty read after the timeout), or "GPGGA" / "GNGGA" with
\* nparts fields, the fields lat, ns, lon, ew at positions 2..5.
RECURSIVE ParseLines(_, _, _)
ParseLines(last, lines, budget) ==
    IF budget = 0 \/ lines = << >> THEN last
    ELSE LET line == Head(lines) IN
         IF line.kind = "raise" THEN last
         ELSE IF line.kind \in {"GPGGA", "GNGGA"}
                 /\ line.nparts > 6 /\ ~line.lat.empty /\ ~line.lon.empty
              THEN IF line.lat.bad \/ line.lon.bad THEN last
                   ELSE LET lat == line.lat.deg * 60 + line.lat.min
                            lon == line.lon.deg * 60 + line.lon.min
                        IN [lat |-> Some(IF line.ns = "S" THEN 0 - lat ELSE lat),
                            lon |-> Some(IF line.ew = "W" THEN 0 - lon ELSE lon)]
              ELSE ParseLines(last, Tail(lines), budget - 1)

\* Mutant: a sample without a fix clears the stored fix.
parse_gps_data_ResetOnMiss(s, serial, lines) ==
    [s EXCEPT !.last_gps_coords =
        IF serial = None THEN [lat |-> None, lon |-> None]
        ELSE ParseLines([lat |-> None, lon |-> None], lines, 10)]

parse_gps_data(s, serial, lines) ==
    IF serial = None THEN s
    ELSE [s EXCEPT !.last_gps_coords = ParseLines(@, lines, 10)]

\* -------------------------------------------------------- main loop body
\* Mutant: the latch does not guard the trigger.
TiltDetection_NoLatchGuard(s, acc, reading) ==
    LET s1 == [s EXCEPT !.is_tilted = check_tilt_angle(acc, reading)[1]] IN
    IF s1.is_tilted
    THEN send_emergency_email(
             activate_external_buzzer([s1 EXCEPT !.accident_detected = TRUE]),
             MailAccident)
    ELSE s1

\* Mutant: the latch follows the sample, so it clears when the tilt ends.
TiltDetection_SelfClearing(s, acc, reading) ==
    LET s1 == [s EXCEPT !.is_tilted = check_tilt_angle(acc, reading)[1]] IN
    IF s1.is_tilted /\ ~s1.accident_detected
    THEN send_emergency_email(
             activate_external_buzzer([s1 EXCEPT !.accident_detected = TRUE]),
             MailAccident)
    ELSE [s1 EXCEPT !.accident_detected = s1.is_tilted]

\* Tilt detection: latch, buzzer and notification on the first tilted sample.
TiltDetection(s, acc, reading) ==
    LET s1 == [s EXCEPT !.is_tilted = check_tilt_angle(acc, reading)[1]] IN
    IF s1.is_tilted /\ ~s1.accident_detected
    THEN send_emergency_email(
             activate_external_buzzer([s1 EXCEPT !.accident_detected = TRUE]),
             MailAccident)
    ELSE s1

\* Mutant: a reading above the threshold starts a challenge even while one
\* is active.
AlcoholDetection_Retrigger(s, sensor, reading, sample) ==
    IF check_alcohol_level(sensor, reading)
    THEN [s EXCEPT !.alcohol_test_active = TRUE,
                   !.test_text = generate_random_text(sample)]
    ELSE s

\* Alcohol detection: a challenge is created when none is active.
AlcoholDetection(s, sensor, reading, sample) ==
    IF ~s.alcohol_test_active /\ check_alcohol_level(sensor, reading)
    THEN [s EXCEPT !.alcohol_test_active = TRUE,
                   !.test_text = generate_random_text(sample)]
    ELSE s

\* Mutant: a frame without a face also empties the smoothing window.
NoFace_ClearsWindow(s) ==
    LET s1 == [s EXCEPT !.COUNTER = 0, !.lip_hist = << >>] IN
    IF ~s1.accident_detected /\ ~s1.alcohol_test_active
    THEN LET s2 == [s1 EXCEPT !.beep_start_time = None]
             s3 == IF s2.alert_active
                   THEN [stop_beep_alert(s2) EXCEPT !.alert_active = FALSE]
                   ELSE s2
         IN IF s3.buzzer_active THEN deactivate_external_buzzer(s3) ELSE s3
    ELSE s1

\* Mutant: the no-face branch looks at the challenge only, not at the latch.
NoFace_IgnoresLatch(s) ==
    LET s1 == [s EXCEPT !.COUNTER = 0] IN
    IF ~s1.alcohol_test_active
    THEN LET s2 == [s1 EXCEPT !.beep_start_time = None]
             s3 == IF s2.alert_active
                   THEN [stop_beep_alert(s2) EXCEPT !.alert_active = FALSE]
                   ELSE s2
         IN IF s3.buzzer_active THEN deactivate_external_buzzer(s3) ELSE s3
    ELSE s1

\* No face in the frame.
NoFace(s) ==
    LET s1 == [s EXCEPT !.COUNTER = 0] IN
    IF ~s1.accident_detected /\ ~s1.alcohol_test_active
    THEN LET s2 == [s1 EXCEPT !.beep_start_time = None]
             s3 == IF s2.alert_active
                   THEN [stop_beep_alert(s2) EXCEPT !.alert_active = FALSE]
                   ELSE s2
         IN IF s3.buzzer_active THEN deactivate_external_buzzer(s3) ELSE s3
    ELSE s1

\* Smooth MAR: the window of the last MAR_SMOOTH_WIN readings.
SmoothMar(s, mar) ==
    LET h == Append(s.lip_hist, mar) IN
    [s EXCEPT !.lip_hist = IF Len(h) > MAR_SMOOTH_WIN THEN Tail(h) ELSE h]

\* Mutant: a smoothed MAR equal to the threshold counts as a yawn.
CalibrateOrYawn_AtLeast(s) ==
    LET smooth_mar == Mean(s.lip_hist) IN
    IF s.calib_count < CALIB_FRAMES
    THEN [s EXCEPT !.calib_base = IF @ = None THEN smooth_mar
                                  ELSE FracHalf(FracAdd(@, smooth_mar)),
                   !.calib_count = @ + 1]
    ELSE IF ~FracGt(<<MAR_MULTIPLIER * s.calib_base[1], s.calib_base[2]>>,
                    <<10 * smooth_mar[1], smooth_mar[2]>>)
         THEN [s EXCEPT !.trigger_alert = TRUE]
         ELSE s

\* Calibrate neutral MAR, or check for a yawn once calibrated.
CalibrateOrYawn(s) ==
    LET smooth_mar == Mean(s.lip_hist) IN
    IF s.calib_count < CALIB_FRAMES
    THEN [s EXCEPT !.calib_base = IF @ = None THEN smooth_mar
                                  ELSE FracHalf(FracAdd(@, smooth_mar)),
                   !.calib_count = @ + 1]
    ELSE IF FracGt(<<10 * smooth_mar[1], smooth_mar[2]>>,
                   <<MAR_MULTIPLIER * s.calib_base[1], s.calib_base[2]>>)
         THEN [s EXCEPT !.trigger_alert = TRUE]
         ELSE s

\* Eye drowsiness: the consecutive-frame counter.
EyeDrowsiness(s, ear) ==
    IF ear < EYE_AR_THRESH
    THEN LET s1 == [s EXCEPT !.COUNTER = @ + 1] IN
         IF s1.COUNTER >= EYE_AR_CONSEC_FRAMES
         THEN [s1 EXCEPT !.trigger_alert = TRUE]
         ELSE s1
    ELSE [s EXCEPT !.COUNTER = 0]

\* The body of "for rect in rects": a face is [ear |-> EAR, mar |-> MAR].
RECURSIVE ForRects(_, _)
ForRects(s, rects) ==
    IF rects = << >> THEN s
    ELSE ForRects(EyeDrowsiness(CalibrateOrYawn(SmoothMar(s, Head(rects).mar)),
                                Head(rects).ear),
                  Tail(rects))

\* Face detection and analysis.
FaceAnalysis(s, rects) ==
    LET s0 == [s EXCEPT !.trigger_alert = FALSE] IN
    IF Len(rects) = 0 THEN NoFace(s0) ELSE ForRects(s0, rects)

\* Mutant: the buzzer is switched off without regard to the accident latch.
AlertClear_NoAccidentGuard(s) ==
    LET s1 == IF s.alert_active /\ ~s.accident_detected
              THEN [stop_beep_alert(s) EXCEPT !.alert_active = FALSE]
              ELSE s
        s2 == IF s1.buzzer_active
              THEN deactivate_external_buzzer(s1)
              ELSE s1
    IN IF ~s2.accident_detected THEN [s2 EXCEPT !.beep_start_time = None] ELSE s2

\* The branch of the alert logic taken when trigger_alert is false.
AlertClear(s) ==
    LET s1 == IF s.alert_active /\ ~s.accident_detected
              THEN [stop_beep_alert(s) EXCEPT !.alert_active = FALSE]
              ELSE s
        s2 == IF s1.buzzer_active /\ ~s1.accident_detected
              THEN deactivate_external_buzzer(s1)
              ELSE s1
    IN IF ~s2.accident_detected THEN [s2 EXCEPT !.beep_start_time = None] ELSE s2

\* "if beep_start_time and (time.time() - beep_start_time >= BEEP_DURATION)":
\* a timestamp of 0 is as false as None.
BeepElapsed(s, t) ==
    /\ s.beep_start_time # None
    /\ s.beep_start_time[1] # 0
    /\ t - s.beep_start_time[1] >= BEEP_DURATION

\* Mutant: the notification is sent without looking at drowsiness_email_sent.
AlertEscalate_NoSentFlag(s) ==
    LET s1 == IF ~s.buzzer_active THEN activate_external_buzzer(s) ELSE s IN
    [send_emergency_email(s1, MailDrowsiness) EXCEPT !.drowsiness_email_sent = TRUE]

\* Mutant: the notification counts as sent only when the dispatch succeeded.
AlertEscalate_RetryOnFailure(s) ==
    LET s1 == IF ~s.buzzer_active THEN activate_external_buzzer(s) ELSE s IN
    IF ~s1.drowsiness_email_sent
    THEN [send_emergency_email(s1, MailDrowsiness)
            EXCEPT !.drowsiness_email_sent = email_sent(s1)]
    ELSE s1

\* The escalation after BEEP_DURATION seconds of alert.
AlertEscalate(s) ==
    LET s1 == IF ~s.buzzer_active THEN activate_external_buzzer(s) ELSE s IN
    IF ~s1.drowsiness_email_sent
    THEN [send_emergency_email(s1, MailDrowsiness) EXCEPT !.drowsiness_email_sent = TRUE]
    ELSE s1

\* Mutant: every tick with the trigger true writes the start time again.
AlertRaise_Restamp(s, t) ==
    IF ~s.alert_active
    THEN [play_beep_alert([s EXCEPT !.alert_active = TRUE,
                                    !.beep_start_time = Some(t)])
            EXCEPT !.drowsiness_email_sent = FALSE]
    ELSE IF BeepElapsed(s, t) THEN AlertEscalate(s)
    ELSE [s EXCEPT !.beep_start_time = Some(t)]

\* The branch of the alert logic taken when trigger_alert is true.
AlertRaise(s, t) ==
    IF ~s.alert_active
    THEN [play_beep_alert([s EXCEPT !.alert_active = TRUE,
                                    !.beep_start_time = Some(t)])
            EXCEPT !.drowsiness_email_sent = FALSE]
    ELSE IF BeepElapsed(s, t) THEN AlertEscalate(s) ELSE s

\* Alert logic (drowsiness/yawn); t is time.time().
AlertLogic(s, t) == IF s.trigger_alert THEN AlertRaise(s, t) ELSE AlertClear(s)

\* One pass of the loop body up to waitKey, on a frame that was read.
LoopBody(s, t, gps, tilt, gas, sample, rects) ==
    AlertLogic(
        FaceAnalysis(
            AlcoholDetection(
                TiltDetection(parse_gps_data(s, gps_serial, gps), accelerometer, tilt),
                alcohol_sensor, gas, sample),
            rects),
        t)

\* ---------------------------------------------------- keyboard commands
\* Mutant: a failed verification sends no notification.
SobrietyVerification_NoMail(s, capture) ==
    IF verify_speech(s.test_text, capture)
    THEN [s EXCEPT !.alcohol_test_active = FALSE, !.alcohol_test_failed = FALSE]
    ELSE [activate_external_buzzer([s EXCEPT !.alcohol_test_failed = TRUE])
            EXCEPT !.alcohol_test_active = FALSE]

\* Mutant: a capture that delivers no text leaves the challenge pending.
SobrietyVerification_Retry(s, capture) ==
    IF capture.kind # "text" THEN s
    ELSE IF verify_speech(s.test_text, capture)
    THEN [s EXCEPT !.alcohol_test_active = FALSE, !.alcohol_test_failed = FALSE]
    ELSE [send_emergency_email(
              activate_external_buzzer([s EXCEPT !.alcohol_test_failed = TRUE]),
              MailAlcohol)
            EXCEPT !.alcohol_test_active = FALSE]

\* key 's' while a challenge is active: speech verification.
SobrietyVerification(s, capture) ==
    IF verify_speech(s.test_text, capture)
    THEN [s EXCEPT !.alcohol_test_active = FALSE, !.alcohol_test_failed = FALSE]
    ELSE [send_emergency_email(
              activate_external_buzzer([s EXCEPT !.alcohol_test_failed = TRUE]),
              MailAlcohol)
            EXCEPT !.alcohol_test_active = FALSE]

\* Mutant: the probe creates a challenge as the loop does.
ManualProbe_CreatesChallenge(s, sensor, reading) ==
    IF ~s.alcohol_test_active /\ check_alcohol_level(sensor, reading)
    THEN [s EXCEPT !.alcohol_test_active = TRUE,
                   !.test_text = generate_random_text(SubSeq(words, 1, 4))]
    ELSE s

\* key 'a': manual alcohol sensor test; it only prints.
ManualProbe(s, sensor, reading) ==
    IF check_alcohol_level(sensor, reading) THEN s ELSE s

\* Mutant: the buzzer is left on while the drowsiness alert is active.
ResetCommand_KeepsAlertBuzzer(s) ==
    LET s1 == [s EXCEPT !.accident_detected = FALSE, !.alcohol_test_failed = FALSE] IN
    IF s1.alert_active THEN s1 ELSE deactivate_external_buzzer(s1)

\* key 'r': reset accident detection.
ResetCommand(s) ==
    deactivate_external_buzzer(
        [s EXCEPT !.accident_detected = FALSE, !.alcohol_test_failed = FALSE])

\* key 'q': leave the loop; the cleanup after it.
Cleanup(s) ==
    LET s1 == stop_beep_alert(s) IN
    IF s1.buzzer_active THEN deactivate_external_buzzer(s1) ELSE s1

\* -------------------------------------------------------------- actions
\* The actions below are the program's steps; they leave the observers to
\* the specification that uses them.

\* vs.read() returned None: sleep and try again.
FrameNone(d) ==
    /\ pc = "sense"
    /\ d > 0
    /\ now + d <= MaxTime
    /\ now' = now + d
    /\ cmds' = << >>
    /\ UNCHANGED <<progVars, env, tone, pc>>

\* A frame was read: the loop body up to waitKey. The clock stops advancing
\* at limit.
TickUntil(limit, d, gps, tilt, gas, sample, rects) ==
    /\ pc = "sense"
    /\ now + d <= limit
    /\ LET s == LoopBody(St, now + d, gps, tilt, gas, sample, rects) IN
        /\ s.COUNTER <= EYE_AR_CONSEC_FRAMES + CounterSlack
        /\ Commit(s)
    /\ now' = now + d
    /\ pc' = "key"
    /\ UNCHANGED env

Tick(d, gps, tilt, gas, sample, rects) ==
    TickUntil(MaxTime, d, gps, tilt, gas, sample, rects)

\* No key, a key without a command, or 's' while no challenge is active.
KeyNone ==
    /\ pc = "key"
    /\ pc' = "sense"
    /\ cmds' = << >>
    /\ UNCHANGED <<progVars, env, now, tone>>

\* The capture blocks the loop for d seconds.
KeySpeak(d, capture) ==
    /\ pc = "key"
    /\ alcohol_test_active
    /\ now + d <= MaxTime
    /\ Commit(SobrietyVerification(St, capture))
    /\ now' = now + d
    /\ pc' = "sense"
    /\ UNCHANGED env

KeyProbe(gas) ==
    /\ pc = "key"
    /\ Commit(ManualProbe(St, alcohol_sensor, gas))
    /\ pc' = "sense"
    /\ UNCHANGED <<env, now>>

KeyReset ==
    /\ pc = "key"
    /\ Commit(ResetCommand(St))
    /\ pc' = "sense"
    /\ UNCHANGED <<env, now>>

KeyQuit ==
    /\ pc = "key"
    /\ Commit(Cleanup(St))
    /\ pc' = "done"
    /\ UNCHANGED <<env, now>>

\* ------------------------------------------------------------ observers
Sat(n) == IF n > MaxCount THEN MaxCount ELSE n

\* A processed frame is a low-EAR frame when it shows a face and every face
\* in it has an eye aspect ratio below the threshold.
LowEarFrame(rects) ==
    /\ Len(rects) > 0
    /\ \A i \in 1..Len(rects) : rects[i].ear < EYE_AR_THRESH

\* lowFrames: the number of consecutive low-EAR frames up to the last frame.
ObserveFrames(rects) == lowFrames' = IF LowEarFrame(rects) THEN lowFrames + 1 ELSE 0

\* tiltSeen: a sample of more than TILT_THRESHOLD degrees was read since the
\* last reset command (or the start).
ObserveTilt(tilt) ==
    tiltSeen' = (tiltSeen \/ (accelerometer # None /\ ~tilt.err
                               /\ tilt.angle > TILT_THRESHOLD))

\* accidentMails: the accident notifications since the last reset command.
\* episodeMails: the drowsiness notifications of the running episode, which
\* lasts from the step that sets alert_active to the step that clears it.
\* failSeen: a sobriety verification has failed since the last reset command.
ObserveMails ==
    /\ accidentMails' = Sat(accidentMails + Count(cmds', MailAccident))
    /\ failSeen' = (failSeen \/ Count(cmds', MailAlcohol) > 0)
    /\ episodeMails' = IF ~alert_active' THEN 0
                       ELSE IF ~alert_active THEN Sat(Count(cmds', MailDrowsiness))
                       ELSE Sat(episodeMails + Count(cmds', MailDrowsiness))

\* lastKey: the key command the last step processed ("" when it processed
\* none); heard: the capture of the last step when it was a verification.
ObserveKey(k, h) ==
    /\ lastKey' = k
    /\ heard' = h

\* gpsRead: the lines the GPS port delivered to the last tick.
ObserveGps(gps) == gpsRead' = Some(gps)

\* unavail: what the last tick could not read: the accelerometer, the gas
\* sensor or the GPS port (handle missing or read raising), a face.
ObserveUnavailable(gps, tilt, gas, rects) ==
    unavail' = Some([tilt |-> (accelerometer = None \/ tilt.err),
                     gas |-> (alcohol_sensor = None \/ gas.err),
                     gps |-> (gps_serial = None \/ gps[1].kind = "raise"),
                     face |-> (rects = << >>)])

\* runStart: the time of the first tick of the running sequence of ticks with
\* trigger_alert true; None when the trigger was false on the last tick.
\* runMails: the drowsiness notifications dispatched during that sequence.
ObserveRun ==
    /\ runStart' = IF ~trigger_alert' THEN None
                   ELSE IF runStart = None THEN Some(now') ELSE runStart
    /\ runMails' = IF ~trigger_alert' THEN 0
                   ELSE IF runStart = None THEN Sat(Count(cmds', MailDrowsiness))
                   ELSE Sat(runMails + Count(cmds', MailDrowsiness))

ObserveReset ==
    /\ tiltSeen' = FALSE
    /\ accidentMails' = 0
    /\ failSeen' = FALSE
    /\ episodeMails' = IF ~alert_active' THEN 0 ELSE episodeMails

\* ------------------------------------------------------- initial states
\* The module-level assignments.
FreshState ==
    [alert_active |-> FALSE, beep_start_time |-> None, buzzer_active |-> FALSE,
     alcohol_test_active |-> FALSE, test_text |-> << >>,
     alcohol_test_failed |-> FALSE, accident_detected |-> FALSE,
     last_gps_coords |-> [lat |-> None, lon |-> None],
     COUNTER |-> 0, lip_hist |-> << >>, calib_base |-> None, calib_count |-> 0,
     drowsiness_email_sent |-> FALSE, trigger_alert |-> FALSE, is_tilted |-> FALSE,
     tone |-> FALSE, cmds |-> << >>]

\* The driver at rest: open eyes, closed mouth.
NeutralFace == [ear |-> 30, mar |-> 20]

\* The program state after the CALIB_FRAMES calibration frames of a session
\* that starts with one face, open eyes and a neutral mouth in every frame.
CalibratedState ==
    [FreshState EXCEPT !.lip_hist = [i \in 1..MAR_SMOOTH_WIN |-> NeutralFace.mar],
                       !.calib_base = <<NeutralFace.mar, 1>>,
                       !.calib_count = CALIB_FRAMES]

\* The program starts in state s at position p, with the given handles and
\* mail server.
StartWith(s, p, sensor, acc, serial, up) ==
    /\ smtp_up = up
    /\ alcohol_sensor = sensor
    /\ accelerometer = acc
    /\ gps_serial = serial
    /\ alert_active = s.alert_active
    /\ beep_start_time = s.beep_start_time
    /\ buzzer_active = s.buzzer_active
    /\ alcohol_test_active = s.alcohol_test_active
    /\ test_text = s.test_text
    /\ alcohol_test_failed = s.alcohol_test_failed
    /\ accident_detected = s.accident_detected
    /\ last_gps_coords = s.last_gps_coords
    /\ COUNTER = s.COUNTER
    /\ lip_hist = s.lip_hist
    /\ calib_base = s.calib_base
    /\ calib_count = s.calib_count
    /\ drowsiness_email_sent = s.drowsiness_email_sent
    /\ trigger_alert = s.trigger_alert
    /\ is_tilted = s.is_tilted
    /\ tone = s.tone
    /\ cmds = s.cmds
    /\ now = 1
    /\ pc = p
    /\ lowFrames = 0
    /\ tiltSeen = FALSE
    /\ accidentMails = 0
    /\ episodeMails = 0
    /\ failSeen = FALSE
    /\ heard = None
    /\ lastKey = ""
    /\ runStart = None
    /\ gpsRead = None
    /\ unavail = None
    /\ alcoholIn = None
    /\ runMails = 0

\* The same with a mail server that accepts every message.
Start(s, p, sensor, acc, serial) == StartWith(s, p, sensor, acc, serial, TRUE)

\* --------------------------------------------------------------- inputs
\* The clock advances by nothing or by MaxStep.
TimeSteps == {0, MaxStep}

Ears == {20, 25}

Faces == {[NeutralFace EXCEPT !.ear = e] : e \in Ears}

RECURSIVE SeqsUpTo(_, _)
SeqsUpTo(S, n) ==
    IF n = 0 THEN {<< >>}
    ELSE LET shorter == SeqsUpTo(S, n - 1) IN
         shorter \cup {Append(q, x) : q \in {r \in shorter : Len(r) = n - 1}, x \in S}

Reading(a) == [err |-> FALSE, angle |-> a]

Tilts == {Reading(45), Reading(50), [err |-> TRUE, angle |-> 0]}

Adc(a) == [err |-> FALSE, adc |-> a]

Gases == {Adc(500), Adc(600)}

\* The readings of the manual probe: those of the loop, and a failing read.
ProbeReadings == Gases \cup {[err |-> TRUE, adc |-> 0]}

Field(d, m) == [empty |-> FALSE, bad |-> FALSE, deg |-> d, min |-> m]

FixLine == [kind |-> "GPGGA", nparts |-> 15,
            lat |-> Field(40, 0), ns |-> "N", lon |-> Field(73, 0), ew |-> "W"]

GpsFeeds == {<<FixLine>>}

MainSample == <<"apple", "banana", "computer", "elephant">>

Text(ws) == [kind |-> "text", text |-> Join(ws)]

Captures == {Text(<<"apple", "banana", "computer", "elephant">>),
             Text(<<"apple", "banana">>),
             [kind |-> "timeout", text |-> << >>],
             [kind |-> "unknown", text |-> << >>],
             [kind |-> "error", text |-> << >>]}

Devices == <<Some("MCP3008"), Some("ADXL345"), Some("serial")>>

\* -------------------------------------------------------- specification
\* The session after calibration: one face at most per frame, a neutral
\* mouth, all devices present.
Init == Start(CalibratedState, "sense", Devices[1], Devices[2], Devices[3])

Next ==
    \/ pc = "sense" /\ \E d \in TimeSteps :
          /\ FrameNone(d)
          /\ ObserveKey("", None)
          /\ UNCHANGED <<lowFrames, tiltSeen, accidentMails, episodeMails,
                         failSeen, runStart, gpsRead, unavail, alcoholIn, runMails>>
    \/ pc = "sense" /\ \E d \in TimeSteps, gps \in GpsFeeds, tilt \in Tilts,
                          gas \in Gases, rects \in SeqsUpTo(Faces, 1) :
          /\ Tick(d, gps, tilt, gas, MainSample, rects)
          /\ ObserveTilt(tilt) /\ ObserveMails /\ ObserveRun
          /\ ObserveKey("", None)
          /\ UNCHANGED <<lowFrames, gpsRead, unavail, alcoholIn>>
    \/ KeyNone /\ UNCHANGED observers
    \/ pc = "key" /\ \E d \in TimeSteps, capture \in Captures :
          /\ KeySpeak(d, capture)
          /\ ObserveMails /\ ObserveKey("s", Some(capture))
          /\ UNCHANGED <<lowFrames, tiltSeen, runStart, gpsRead, unavail, alcoholIn, runMails>>
    \/ pc = "key" /\ \E gas \in ProbeReadings :
          /\ KeyProbe(gas)
          /\ ObserveMails /\ ObserveKey("a", None)
          /\ UNCHANGED <<lowFrames, tiltSeen, runStart, gpsRead, unavail, alcoholIn, runMails>>
    \/ KeyReset /\ ObserveReset /\ ObserveKey("r", None)
               /\ UNCHANGED <<lowFrames, runStart, gpsRead, unavail, alcoholIn, runMails>>
    \/ KeyQuit /\ ObserveMails /\ ObserveKey("q", None)
              /\ UNCHANGED <<lowFrames, tiltSeen, runStart, gpsRead, unavail, alcoholIn, runMails>>

Spec == Init /\ [][Next]_vars

\* ------------------------------------------------------------ the claims
\* A step of the loop body (a processed frame).
TickStep == pc = "sense" /\ pc' = "key"

\* The drowsiness/yawn concern: Inactive, SoundOnly, or SoundAndBuzzer once
\* the escalation branch has run in the episode (it sets drowsiness_email_sent,
\* which the start of an episode clears).
DrowsyLevel ==
    IF ~alert_active THEN "Inactive"
    ELSE IF drowsiness_email_sent THEN "SoundAndBuzzer"
    ELSE "SoundOnly"

\* C2. Between two reset commands the accident buzzer activation and the
\* accident notification are emitted exactly once, on the first tick whose
\* tilt sample exceeds 45 degrees: the notifications since the last reset
\* number one exactly when such a sample has been read since, and a tick
\* that sends the notification is one that has just activated the buzzer.
AccidentOneShot ==
    /\ accidentMails = IF tiltSeen THEN 1 ELSE 0
    /\ Count(cmds, MailAccident) > 0 =>
          /\ pc = "key"
          /\ is_tilted
          /\ Len(cmds) >= 2 /\ cmds[1] = "buzzer_on" /\ cmds[2] = MailAccident
          /\ Count(cmds, MailAccident) = 1

\* A tilted tick while the latch is set: nothing is notified again.
AccidentOneShotWitness ==
    /\ pc = "key" /\ is_tilted /\ accident_detected
    /\ accidentMails = 1
    /\ Count(cmds, MailAccident) = 0
    /\ Count(cmds, "buzzer_on") = 0

\* C3. Once accident_detected is true it stays true until the reset command:
\* every step that clears it is the reset command.
LatchPersistence == [][accident_detected /\ ~accident_detected' => KeyReset]_vars

\* The latch is still set after a tick whose sample was not tilted.
LatchPersistenceWitness ==
    pc = "key" /\ accident_detected /\ ~is_tilted /\ ~trigger_alert

\* C4. Within one drowsiness/yawn episode at most one drowsiness
\* notification is dispatched.
EscalationIdempotent == episodeMails <= 1

\* A tick after the escalation, the trigger still true: nothing is sent.
EscalationIdempotentWitness ==
    /\ pc = "key" /\ trigger_alert /\ alert_active /\ buzzer_active
    /\ drowsiness_email_sent
    /\ episodeMails = 1
    /\ cmds = << >>

\* C5. On any tick where the trigger is false the drowsiness/yawn concern is
\* Inactive at the end of the tick: alert not active, tone stopped, startedAt
\* cleared, whatever the state of the other concerns.
ImmediateDeescalation ==
    (pc = "key" /\ ~trigger_alert) =>
        (~alert_active /\ ~tone /\ beep_start_time = None)

\* C6. Trigger true, then false for a tick, then true again: the second run
\* is a new episode. On its first tick startedAt is set anew and a new
\* notification is eligible, whether or not the accident latch is set.
FreshEpisode ==
    [][(TickStep /\ ~trigger_alert /\ trigger_alert') =>
          (beep_start_time' = Some(now') /\ ~drowsiness_email_sent')]_vars

\* C7. While the accident latch is set, a tick on which the drowsiness/yawn
\* trigger is false (or no face is detected) leaves the buzzer active and
\* issues no buzzer deactivation.
BuzzerKeptByAccident ==
    [][(TickStep /\ accident_detected /\ ~trigger_alert') =>
          (buzzer_active' /\ Count(cmds', "buzzer_off") = 0)]_vars

\* The latch was set before the tick, the trigger is false on it, the
\* buzzer is on after it.
BuzzerKeptByAccidentWitness ==
    /\ pc = "key" /\ accident_detected /\ Count(cmds, MailAccident) = 0
    /\ ~trigger_alert /\ COUNTER = 0
    /\ buzzer_active

\* C8. At the end of every tick the buzzer is active if and only if the
\* drowsiness/yawn concern is in SoundAndBuzzer, or the accident latch is
\* set, or a sobriety challenge has failed and no reset has happened since.
BuzzerComposite ==
    pc = "key" =>
        (buzzer_active <=>
            (DrowsyLevel = "SoundAndBuzzer" \/ accident_detected \/ failSeen))

\* C9. A failed verification of an active challenge activates the buzzer,
\* dispatches exactly one intoxication notification, sets the failed flag and
\* makes the challenge inactive; a passed one makes it inactive with no
\* notification, no buzzer command and the failed flag cleared.
SobrietyOutcome ==
    [][\A d \in TimeSteps, capture \in Captures :
          KeySpeak(d, capture) =>
              /\ ~alcohol_test_active'
              /\ IF verify_speech(test_text, capture)
                 THEN /\ ~alcohol_test_failed'
                      /\ cmds' = << >>
                      /\ buzzer_active' = buzzer_active
                 ELSE /\ alcohol_test_failed'
                      /\ buzzer_active'
                      /\ cmds' = <<"buzzer_on", MailAlcohol>>]_vars

\* After a failed verification.
SobrietyOutcomeWitness ==
    /\ pc = "sense" /\ ~alcohol_test_active /\ alcohol_test_failed
    /\ buzzer_active /\ cmds = <<"buzzer_on", MailAlcohol>>

\* ------------------------------------------ the drowsiness specification
\* The calibrated session with up to MaxFaces faces per frame, no tilt and
\* no gas above the thresholds.
NextDrowsy ==
    \/ pc = "sense" /\ \E d \in TimeSteps : FrameNone(d) /\ UNCHANGED observers
    \/ pc = "sense" /\ \E d \in TimeSteps, rects \in SeqsUpTo(Faces, MaxFaces) :
          /\ Tick(d, <<FixLine>>, Reading(45), Adc(500), MainSample, rects)
          /\ ObserveFrames(rects) /\ ObserveMails /\ ObserveRun
          /\ UNCHANGED <<tiltSeen, heard, lastKey, gpsRead, unavail, alcoholIn>>
    \/ KeyNone /\ UNCHANGED observers
    \/ KeyQuit /\ ObserveMails /\ ObserveKey("q", None)
              /\ UNCHANGED <<lowFrames, tiltSeen, runStart, gpsRead, unavail, alcoholIn, runMails>>

SpecDrowsy == Init /\ [][NextDrowsy]_vars

\* C1. The drowsiness trigger is false on each of the first 19 consecutive
\* frames with eyeAspectRatio < 0.25 and true from the 20th on; a frame that
\* is not such a frame starts the count again.
DrowsinessDebounce ==
    pc = "key" => (trigger_alert <=> lowFrames >= EYE_AR_CONSEC_FRAMES)

\* --------------------------------------------- the scoring specification
\* The prompts: every order of the first four words, and every run of four
\* neighbours of the vocabulary.
SpeechSamples ==
    Samples(4) \cup {<<words[k], words[k + 1], words[k + 2], words[k + 3]>> : k \in 1..7}

\* What the recogniser may return: texts of up to MaxHeard words.
HeardTokens == {"apple", "banana", "computer", "elephant", "Apple", "zebra"}

HeardTexts == {Text(ws) : ws \in SeqsUpTo(HeardTokens, MaxHeard)}

\* A challenge has just been created: the state at waitKey after a first
\* frame without a face and with a gas reading above the threshold.
InitSpeech ==
    \E sample \in SpeechSamples :
        Start(AlertLogic(FaceAnalysis(
                  AlcoholDetection(CalibratedState, Devices[1], Adc(600), sample),
                  << >>), 1),
              "key", Devices[1], Devices[2], Devices[3])

NextSpeech ==
    pc = "key" /\ \E capture \in HeardTexts :
        /\ KeySpeak(0, capture)
        /\ ObserveMails /\ ObserveKey("s", Some(capture))
        /\ UNCHANGED <<lowFrames, tiltSeen, runStart, gpsRead, unavail, alcoholIn, runMails>>

SpecSpeech == InitSpeech /\ [][NextSpeech]_vars

\* The prompt words of the heard text, counted without the code's sets: the
\* i-th prompt word is the token 2i - 1 of the prompt.
MatchCount(prompt, text) ==
    Cardinality({i \in 1..4 : \E j \in 1..Len(text) : Lower(text[j]) = prompt[2 * i - 1]})

\* C10. The verification passes if and only if at least 3 of the 4 prompt
\* words occur in the heard text (a ratio of at least 0.75), whatever the
\* order of the heard words and whatever other words are heard.
SpeechScoring ==
    (pc = "sense" /\ heard # None) =>
        (~alcohol_test_failed <=> MatchCount(test_text, heard[1].text) >= 3)

\* A pass on three of the four prompt words, out of order, with a word that
\* is not in the prompt.
SpeechScoringWitness ==
    /\ pc = "sense" /\ heard # None
    /\ ~alcohol_test_failed /\ ~alcohol_test_active
    /\ test_text = Join(<<"apple", "banana", "computer", "elephant">>)
    /\ heard[1].text = Join(<<"zebra", "elephant", "banana", "Apple">>)

\* ------------------------------------------------- claims on the commands
\* C11. A capture that times out, is unintelligible or raises any other
\* error resolves the verification as a failed attempt: after the step the
\* challenge is inactive (it is not pending, and not retried), the failed
\* flag is set, the buzzer is active, and the step has issued the buzzer
\* activation and exactly one intoxication notification.
CaptureFailure ==
    (lastKey = "s" /\ heard # None /\ heard[1].kind # "text") =>
        /\ pc = "sense"
        /\ ~alcohol_test_active
        /\ alcohol_test_failed
        /\ buzzer_active
        /\ cmds = <<"buzzer_on", MailAlcohol>>

\* The capture has timed out: the verification has failed.
CaptureFailureWitness ==
    /\ lastKey = "s" /\ heard # None /\ heard[1].kind = "timeout"
    /\ ~alcohol_test_active /\ alcohol_test_failed /\ buzzer_active
    /\ Count(cmds, MailAlcohol) = 1

\* C12. Sensing stays responsive while a speech capture is in progress: a
\* drowsiness episode that reaches BEEP_DURATION seconds during the capture
\* has escalated to the buzzer by the time the capture ends.
CaptureResponsive ==
    (lastKey = "s" /\ trigger_alert /\ alert_active
        /\ beep_start_time # None /\ now - beep_start_time[1] >= BEEP_DURATION)
    => buzzer_active

\* ----------------------------------------------------- the GPS specification
EmptyField == [empty |-> TRUE, bad |-> FALSE, deg |-> 0, min |-> 0]

\* A field float() cannot convert.
BadField == [empty |-> FALSE, bad |-> TRUE, deg |-> 0, min |-> 0]

OtherLine == [FixLine EXCEPT !.kind = "other"]

\* Sentences with a fix, one in each hemisphere pair.
FixLines ==
    {FixLine,
     [FixLine EXCEPT !.kind = "GNGGA", !.lat = Field(41, 30), !.ns = "S",
                     !.lon = Field(74, 30), !.ew = "E"]}

\* What readline may deliver: a fix, a GGA sentence with a field that does
\* not parse, with an empty field, or with too few fields, another
\* sentence, or an error of the port.
GpsLines ==
    FixLines \cup
    {[FixLine EXCEPT !.lat = BadField], [FixLine EXCEPT !.lon = BadField],
     [FixLine EXCEPT !.lat = EmptyField], [FixLine EXCEPT !.lon = EmptyField],
     [FixLine EXCEPT !.nparts = 6],
     OtherLine,
     [FixLine EXCEPT !.kind = "raise"]}

\* The lines of one sample: up to two lines of any kind, and a fix that
\* comes as the tenth or as the eleventh line.
GpsSamples ==
    SeqsUpTo(GpsLines, 2)
        \cup {[i \in 1..n |-> IF i < n THEN OtherLine ELSE FixLine] : n \in {10, 11}}

\* The session with or without the GPS port; no face, no tilt, no gas.
InitGps ==
    \E serial \in {None, Devices[3]} :
        Start(CalibratedState, "sense", Devices[1], Devices[2], serial)

NextGps ==
    \/ pc = "sense" /\ \E d \in {0, MaxStep}, gps \in GpsSamples :
          /\ Tick(d, gps, Reading(45), Adc(500), MainSample, << >>)
          /\ ObserveGps(gps) /\ ObserveMails /\ ObserveRun
          /\ UNCHANGED <<lowFrames, tiltSeen, heard, lastKey, unavail, alcoholIn>>
    \/ KeyNone /\ UNCHANGED observers

SpecGps == InitGps /\ [][NextGps]_vars

\* A line holds a valid fix: a GGA sentence with more than six fields whose
\* latitude and longitude fields are present and are numbers.
ValidFix(line) ==
    /\ line.kind \in {"GPGGA", "GNGGA"}
    /\ line.nparts > 6
    /\ ~line.lat.empty /\ ~line.lat.bad
    /\ ~line.lon.empty /\ ~line.lon.bad

\* C13. A sample that yields no valid fix (no line with a valid fix among
\* the lines read, or no GPS port) leaves the stored fix as it was, and a
\* stored fix is never set back to None.
GpsLastKnownGood ==
    [][/\ (last_gps_coords.lat # None /\ last_gps_coords.lon # None)
            => (last_gps_coords'.lat # None /\ last_gps_coords'.lon # None)
       /\ (TickStep /\ (gps_serial = None
                        \/ \A i \in 1..Len(gpsRead'[1]) : ~ValidFix(gpsRead'[1][i])))
            => last_gps_coords' = last_gps_coords]_vars

\* A malformed sentence after the fix (40.0, -73.0): the fix is still stored.
GpsLastKnownGoodWitness ==
    /\ pc = "key"
    /\ gpsRead = Some(<<[FixLine EXCEPT !.lat = BadField]>>)
    /\ last_gps_coords = [lat |-> Some(40 * 60), lon |-> Some(0 - 73 * 60)]

\* --------------------------------------------- the calibration specification
\* The program state CalibLeft samples before the end of the calibration of
\* a session that starts with one face, open eyes and a neutral mouth in
\* every frame.
CalibratingState == [CalibratedState EXCEPT !.calib_count = CALIB_FRAMES - CalibLeft]

\* Open eyes, and a mouth that is closed or wide open.
CalibFaces == {NeutralFace, [NeutralFace EXCEPT !.mar = 10 * @]}

InitCalib == Start(CalibratingState, "sense", Devices[1], Devices[2], Devices[3])

\* Up to MaxFaces faces per frame; no tilt, no gas, the clock standing.
NextCalib ==
    \/ pc = "sense" /\ \E rects \in SeqsUpTo(CalibFaces, MaxFaces) :
          /\ Tick(0, <<FixLine>>, Reading(45), Adc(500), MainSample, rects)
          /\ ObserveFrames(rects) /\ ObserveMails /\ ObserveRun
          /\ UNCHANGED <<tiltSeen, heard, lastKey, gpsRead, unavail, alcoholIn>>
    \/ KeyNone /\ UNCHANGED observers

SpecCalib == InitCalib /\ [][NextCalib]_vars

\* C14. In every state with fewer than CALIB_FRAMES calibration samples the
\* yawn trigger is false on the tick, whatever the mouth ratio: a yawn can
\* set the trigger only on ticks after the one that takes the last
\* calibration sample.  (The eyes are open in every frame of this
\* specification, so trigger_alert is the yawn trigger.)
YawnSuppression ==
    [][(TickStep /\ calib_count < CALIB_FRAMES) => ~trigger_alert']_vars

\* C15. The manual probe is a pure query: whatever the gas reading, the step
\* leaves the challenge (active, prompt, failed), the accident latch, the
\* drowsiness alert state, the tone and the buzzer as they were and issues
\* no command, so no notification.
ProbePure ==
    [][(pc = "key" /\ lastKey' = "a") =>
          /\ UNCHANGED <<alcohol_test_active, test_text, alcohol_test_failed>>
          /\ UNCHANGED accident_detected
          /\ UNCHANGED <<alert_active, beep_start_time, drowsiness_email_sent, tone>>
          /\ UNCHANGED buzzer_active
          /\ cmds' = << >>]_vars

\* A probe while a challenge is pending, the accident latch is set and the
\* buzzer is on: all three are as they were, nothing has been issued.
ProbePureWitness ==
    /\ lastKey = "a"
    /\ alcohol_test_active /\ accident_detected /\ buzzer_active
    /\ cmds = << >>

\* C16. From every state the reset command leads to a state with the
\* accident latch cleared, the failed-challenge flag cleared and the buzzer
\* inactive (the deactivation is issued), whichever concern had activated
\* the buzzer.
ResetClears ==
    lastKey = "r" =>
        /\ pc = "sense"
        /\ ~accident_detected
        /\ ~alcohol_test_failed
        /\ ~buzzer_active
        /\ cmds = <<"buzzer_off">>

\* A reset during an escalated drowsiness episode: the escalation had
\* activated the buzzer, the reset has switched it off.
ResetClearsWitness ==
    /\ lastKey = "r"
    /\ alert_active /\ trigger_alert /\ drowsiness_email_sent
    /\ ~buzzer_active /\ ~accident_detected /\ ~alcohol_test_failed

\* C17. An active sobriety challenge becomes inactive on a pass, on a fail
\* and on the reset command: after a verification and after a reset no
\* challenge is active.
ChallengeLifetime ==
    lastKey \in {"s", "r"} => ~alcohol_test_active

\* ------------------------------------------------ the degraded specification
\* The session with all devices, with none, without the gas sensor or
\* without the accelerometer, and with reads that raise: one face at most
\* per frame, no fix from the GPS.
InitDegraded ==
    \E h \in {Devices, <<None, None, None>>,
               [Devices EXCEPT ![1] = None], [Devices EXCEPT ![2] = None]} :
        Start(CalibratedState, "sense", h[1], h[2], h[3])

NextDegraded ==
    \/ pc = "sense" /\ \E d \in {0, BEEP_DURATION},
                          gps \in {<<OtherLine>>, <<[FixLine EXCEPT !.kind = "raise"]>>},
                          tilt \in Tilts, gas \in ProbeReadings \ {Adc(500)},
                          rects \in SeqsUpTo(Faces, 1) :
          /\ Tick(d, gps, tilt, gas, MainSample, rects)
          /\ ObserveTilt(tilt) /\ ObserveMails /\ ObserveRun
          /\ ObserveUnavailable(gps, tilt, gas, rects)
          /\ ObserveKey("", None)
          /\ UNCHANGED <<lowFrames, gpsRead, alcoholIn>>
    \/ KeyNone /\ UNCHANGED observers
    \/ pc = "key" /\ \E capture \in {Text(MainSample), [kind |-> "timeout", text |-> << >>]} :
          /\ KeySpeak(0, capture)
          /\ ObserveMails /\ ObserveKey("s", Some(capture))
          /\ UNCHANGED <<lowFrames, tiltSeen, runStart, gpsRead, unavail, alcoholIn, runMails>>
    \/ KeyReset /\ ObserveReset /\ ObserveKey("r", None)
               /\ UNCHANGED <<lowFrames, runStart, gpsRead, unavail, alcoholIn, runMails>>

SpecDegraded == InitDegraded /\ [][NextDegraded]_vars

\* The tick could read nothing: no accelerometer, no gas sensor, no GPS, no face.
AllUnavailable(u) == u.tilt /\ u.gas /\ u.gps /\ u.face

\* What a tick without the accelerometer and without the gas sensor leaves
\* as it was, and what a tick that could read nothing leaves as it was.
DegradedTick(u) ==
    /\ u.tilt => (UNCHANGED accident_detected /\ Count(cmds', MailAccident) = 0)
    /\ u.gas => UNCHANGED <<alcohol_test_active, test_text>>
    /\ AllUnavailable(u) =>
          /\ UNCHANGED <<accident_detected, alcohol_test_active, test_text,
                         alcohol_test_failed, last_gps_coords>>
          /\ ~trigger_alert'
          /\ ~alert_active' \/ UNCHANGED <<alert_active, beep_start_time,
                                           drowsiness_email_sent, tone>>
          /\ buzzer_active' => buzzer_active

\* C18 as stated. A sensor that is unavailable cannot trigger its concern on
\* the tick: without the accelerometer the latch is never set, without the
\* gas sensor no challenge becomes active, and a tick that could read
\* nothing and saw no face leaves every concern Inactive or unchanged and
\* emits no buzzer, tone or notification command.
DegradedSilent ==
    [][TickStep =>
          /\ DegradedTick(unavail'[1])
          /\ AllUnavailable(unavail'[1]) => cmds' = << >>]_vars

\* C18, amended. As above, but the tick that could read nothing emits no
\* activation: no tone start, no buzzer activation, no notification.  (It
\* ends a running drowsiness alert as every tick without a face does, which
\* stops the tone and switches the buzzer off.)
DegradedMode ==
    /\ [](accelerometer = None => ~accident_detected)
    /\ [](alcohol_sensor = None => ~alcohol_test_active)
    /\ [][TickStep =>
            /\ DegradedTick(unavail'[1])
            /\ AllUnavailable(unavail'[1]) =>
                  /\ Count(cmds', "play") = 0
                  /\ Count(cmds', "buzzer_on") = 0
                  /\ \A m \in {MailAccident, MailDrowsiness, MailAlcohol} :
                        Count(cmds', m) = 0]_vars

\* With all devices present, a tick on which both reads raised, the GPS
\* port failed and no face was seen has ended a running drowsiness alert.
DegradedModeWitness ==
    /\ pc = "key" /\ unavail # None /\ AllUnavailable(unavail[1])
    /\ accelerometer # None /\ alcohol_sensor # None /\ gps_serial # None
    /\ ~alert_active /\ ~accident_detected /\ ~alcohol_test_active
    /\ Count(cmds, "stop") = 1

\* --------------------------------------------------- the yawn specification
\* The mouth ratios around the threshold of a baseline of 0.20.
YawnMars == {33, 34, 35}

\* After calibration, MAR_SMOOTH_WIN - 1 frames with the mouth ratio m: the
\* window holds one neutral reading and m in every other place.  Its mean
\* has stayed below the threshold, so nothing else has changed.
WindowState(m) ==
    [CalibratedState EXCEPT
        !.lip_hist = [i \in 1..MAR_SMOOTH_WIN |-> IF i = 1 THEN NeutralFace.mar ELSE m]]

InitYawn ==
    \E m \in YawnMars \cup {NeutralFace.mar} :
        Start(WindowState(m), "sense", Devices[1], Devices[2], Devices[3])

\* One face with open eyes in every frame; no tilt, no gas.
NextYawn ==
    \/ pc = "sense" /\ \E m \in YawnMars :
          /\ Tick(MaxStep, <<FixLine>>, Reading(45), Adc(500), MainSample,
                  <<[NeutralFace EXCEPT !.mar = m]>>)
          /\ ObserveMails /\ ObserveRun
          /\ UNCHANGED <<lowFrames, tiltSeen, heard, lastKey, gpsRead, unavail, alcoholIn>>
    \/ KeyNone /\ UNCHANGED observers

SpecYawn == InitYawn /\ [][NextYawn]_vars

\* The window holds the mouth ratio m in every place: the smoothed ratio is m.
Smoothed(m) == lip_hist = [i \in 1..MAR_SMOOTH_WIN |-> m]

\* C19. After calibration the yawn trigger of a tick is true if and only if
\* the smoothed mouth ratio, the sum of the window over its length, is
\* strictly greater than 1.7 times the baseline; with the baseline 0.20 a
\* smoothed ratio of 0.35 triggers, 0.33 and exactly 0.34 do not.  (The
\* eyes are open in every frame of this specification, so trigger_alert is
\* the yawn trigger.)
YawnThreshold ==
    pc = "key" =>
        /\ calib_base = <<20, 1>>
        /\ trigger_alert <=>
              10 * SeqSum(lip_hist) * calib_base[2]
                  > MAR_MULTIPLIER * calib_base[1] * Len(lip_hist)
        /\ Smoothed(35) => trigger_alert
        /\ Smoothed(34) => ~trigger_alert
        /\ Smoothed(33) => ~trigger_alert

\* A tick with a smoothed ratio of exactly 0.34: no yawn.
YawnThresholdWitness ==
    pc = "key" /\ calib_base = <<20, 1>> /\ Smoothed(34) /\ ~trigger_alert

\* C20. A drowsiness notification is dispatched only on a tick on which the
\* trigger is true and at least BEEP_DURATION seconds have passed since
\* startedAt of the episode; and, an episode being an unbroken run of ticks
\* with the trigger true, only when the trigger has been true on every tick
\* of the last BEEP_DURATION seconds.
EscalationTiming ==
    Count(cmds, MailDrowsiness) > 0 =>
        /\ pc = "key" /\ trigger_alert
        /\ beep_start_time # None /\ now - beep_start_time[1] >= BEEP_DURATION
        /\ runStart # None /\ now - runStart[1] >= BEEP_DURATION

\* ------------------------------------------------ challenge specification
\* alcoholIn: the gas reading the last tick was given and the four words
\* random.sample would hand to it.
ObserveAlcohol(gas, sample) == alcoholIn' = Some([gas |-> gas, sample |-> sample])

\* The draws of random.sample that start with the first two words.
ChallengeSamples == {q \in Samples(5) : q[1] = words[1] /\ q[2] = words[2]}

\* The session after calibration, every tick with its own reading and draw.
InitChallenge == Start(CalibratedState, "sense", Devices[1], Devices[2], Devices[3])

NextChallenge ==
    \/ pc = "sense" /\ \E d \in TimeSteps, gas \in ProbeReadings,
                          sample \in ChallengeSamples,
                          rects \in SeqsUpTo({NeutralFace}, 1) :
          /\ Tick(d, <<FixLine>>, Reading(TILT_THRESHOLD), gas, sample, rects)
          /\ ObserveAlcohol(gas, sample) /\ ObserveMails /\ ObserveKey("", None)
          /\ UNCHANGED <<lowFrames, tiltSeen, runStart, runMails, gpsRead, unavail>>
    \/ KeyNone /\ UNCHANGED observers
    \/ pc = "key" /\ \E capture \in {Text(MainSample), [kind |-> "timeout", text |-> << >>]} :
          /\ KeySpeak(0, capture)
          /\ ObserveMails /\ ObserveKey("s", Some(capture))
          /\ UNCHANGED <<lowFrames, tiltSeen, runStart, runMails, gpsRead, unavail,
                         alcoholIn>>
    \/ pc = "key" /\ \E gas \in ProbeReadings :
          /\ KeyProbe(gas)
          /\ ObserveMails /\ ObserveKey("a", None)
          /\ UNCHANGED <<lowFrames, tiltSeen, runStart, runMails, gpsRead, unavail,
                         alcoholIn>>
    \/ KeyReset /\ ObserveReset /\ ObserveKey("r", None)
               /\ UNCHANGED <<lowFrames, runStart, runMails, gpsRead, unavail, alcoholIn>>

SpecChallenge == InitChallenge /\ [][NextChallenge]_vars

\* The reading the last tick was given is above ALCOHOL_THRESHOLD.
GasHigh(in) == alcohol_sensor # None /\ ~in.gas.err /\ in.gas.adc > ALCOHOL_THRESHOLD

\* The text is four pairwise distinct words of the vocabulary, one separator
\* between neighbours.
FourDistinctWords(text) ==
    /\ Len(text) = 7
    /\ \A i \in {2, 4, 6} : text[i] = " "
    /\ \A i \in {1, 3, 5, 7} : \E k \in 1..Len(words) : text[i] = words[k]
    /\ Cardinality({text[i] : i \in {1, 3, 5, 7}}) = 4

\* C21. A challenge becomes active only on a tick whose gas reading is above
\* ALCOHOL_THRESHOLD while no challenge is active, and its prompt is four
\* pairwise distinct words of the vocabulary; a tick that finds a challenge
\* active leaves it active and leaves the prompt alone, whatever it reads.
ChallengeGuard ==
    [][/\ (~alcohol_test_active /\ alcohol_test_active') =>
            /\ TickStep
            /\ GasHigh(alcoholIn'[1])
            /\ FourDistinctWords(test_text')
       /\ (TickStep /\ alcohol_test_active) =>
            /\ alcohol_test_active'
            /\ test_text' = test_text]_vars

\* A tick read a gas value above the threshold while a challenge was active,
\* with a draw other than the prompt: the challenge and its prompt stay.
ChallengeGuardWitness ==
    /\ pc = "key" /\ alcohol_test_active
    /\ alcoholIn # None /\ GasHigh(alcoholIn[1])
    /\ test_text # generate_random_text(alcoholIn[1].sample)
    /\ FourDistinctWords(test_text)

\* ----------------------------------------------------- face specification
\* The driver at rest, with closed eyes, or with the mouth wide open.
FaceSet == {NeutralFace, [NeutralFace EXCEPT !.ear = 20],
            [NeutralFace EXCEPT !.mar = 10 * @]}

\* The session during calibration, all devices present.
InitFace == Start(CalibratingState, "sense", Devices[1], Devices[2], Devices[3])

\* Frames MaxStep apart, with one face or none, with and without a tilt and
\* a gas reading above the threshold.
NextFace ==
    \/ pc = "sense" /\ \E tilt \in {Reading(TILT_THRESHOLD), Reading(TILT_THRESHOLD + 5)},
                          gas \in Gases, rects \in SeqsUpTo(FaceSet, 1) :
          /\ Tick(MaxStep, <<FixLine>>, tilt, gas, MainSample, rects)
          /\ ObserveUnavailable(<<FixLine>>, tilt, gas, rects)
          /\ ObserveAlcohol(gas, MainSample)
          /\ ObserveTilt(tilt) /\ ObserveMails /\ ObserveKey("", None)
          /\ UNCHANGED <<lowFrames, runStart, runMails, gpsRead>>
    \/ KeyNone /\ UNCHANGED observers
    \/ KeyReset /\ ObserveReset /\ ObserveKey("r", None)
               /\ UNCHANGED <<lowFrames, runStart, runMails, gpsRead, unavail, alcoholIn>>

SpecFace == InitFace /\ [][NextFace]_vars

\* C22. On a tick without a face the eye-closure counter is 0 and the trigger
\* false after the tick, the calibration state (samples taken, baseline,
\* smoothing window) and the failed flag are unchanged, and latch and
\* challenge are what the tilt and gas steps of the tick alone make them.
NoFaceTick ==
    [][(TickStep /\ unavail'[1].face) =>
          /\ COUNTER' = 0
          /\ ~trigger_alert'
          /\ UNCHANGED <<calib_count, calib_base, lip_hist, alcohol_test_failed>>
          /\ accident_detected' = (accident_detected \/ is_tilted')
          /\ <<alcohol_test_active', test_text'>> =
                IF ~alcohol_test_active /\ GasHigh(alcoholIn'[1])
                THEN <<TRUE, generate_random_text(alcoholIn'[1].sample)>>
                ELSE <<alcohol_test_active, test_text>>]_vars

\* A tick without a face in the middle of the calibration, with the latch
\* set and a challenge pending.
NoFaceTickWitness ==
    /\ pc = "key" /\ unavail # None /\ unavail[1].face
    /\ calib_count > CALIB_FRAMES - CalibLeft /\ calib_count < CALIB_FRAMES
    /\ calib_base # CalibratingState.calib_base
    /\ accident_detected /\ alcohol_test_active
    /\ COUNTER = 0 /\ ~trigger_alert

\* A tick of the calibration specification on the given faces.
CalibTick(rects) == Tick(0, <<FixLine>>, Reading(45), Adc(500), MainSample, rects)

\* C23. The number of calibration samples grows by exactly one on every tick
\* with a face while it is below CALIB_FRAMES, never exceeds CALIB_FRAMES,
\* and at CALIB_FRAMES neither it nor the baseline changes again.
CalibrationPerFrame ==
    [][/\ \A rects \in SeqsUpTo(CalibFaces, MaxFaces) :
            (CalibTick(rects) /\ Len(rects) > 0 /\ calib_count < CALIB_FRAMES) =>
                calib_count' = calib_count + 1
       /\ calib_count' <= CALIB_FRAMES
       /\ calib_count = CALIB_FRAMES => UNCHANGED <<calib_count, calib_base>>]_vars

\* ----------------------------------------------------- mail specification
\* The session of Spec with a mail server that takes no message: every
\* dispatch fails.
InitMail == StartWith(CalibratedState, "sense", Devices[1], Devices[2], Devices[3], FALSE)

SpecMail == InitMail /\ [][Next]_vars

\* C24. A dispatch that failed is not repeated: with every dispatch failing,
\* there is at most one accident notification per latch, at most one
\* drowsiness notification per episode, and an intoxication notification
\* only in the verification step that ends the challenge, once.
MailNoRetry ==
    ~email_sent(St) =>
        /\ accidentMails = (IF tiltSeen THEN 1 ELSE 0)
        /\ episodeMails <= 1
        /\ Count(cmds, MailAccident) <= 1
        /\ Count(cmds, MailDrowsiness) <= 1
        /\ Count(cmds, MailAlcohol) <= 1
        /\ Count(cmds, MailAlcohol) = 1 => lastKey = "s" /\ ~alcohol_test_active

\* A tick of a drowsiness episode and a latch whose notifications have both
\* failed: neither is dispatched again.
MailNoRetryWitness ==
    /\ ~email_sent(St)
    /\ pc = "key" /\ trigger_alert /\ alert_active /\ buzzer_active
    /\ episodeMails = 1 /\ accident_detected /\ accidentMails = 1
    /\ cmds = << >>

\* C25. Whatever the order of tilt and drowsiness, the accident notification
\* is dispatched exactly once per latch, and a sequence of ticks with the
\* trigger true dispatches no second drowsiness notification and, once it
\* has lasted BEEP_DURATION seconds, has dispatched one.
ConcurrentConcerns ==
    /\ accidentMails = (IF tiltSeen THEN 1 ELSE 0)
    /\ runMails <= 1
    /\ (/\ pc = "key" /\ trigger_alert
        /\ runStart # None /\ now - runStart[1] >= BEEP_DURATION) => runMails = 1

\* ------------------------------------------- unanswered-challenge specification
\* A frame of the session in which the driver never gives the speak command.
UnansweredTick(d) ==
    \E gas \in Gases, rects \in SeqsUpTo(Faces, 1) :
        /\ TickUntil(MaxChallengeTime, d, <<FixLine>>, Reading(TILT_THRESHOLD), gas,
                     MainSample, rects)
        /\ ObserveAlcohol(gas, MainSample) /\ ObserveMails /\ ObserveRun
        /\ ObserveKey("", None)
        /\ UNCHANGED <<lowFrames, tiltSeen, gpsRead, unavail>>

\* Every key but 's': none, the reset, the manual probe.
NextUnanswered ==
    \/ pc = "sense" /\ \E d \in TimeSteps : UnansweredTick(d)
    \/ KeyNone /\ UNCHANGED observers
    \/ pc = "key" /\ \E gas \in ProbeReadings :
          /\ KeyProbe(gas)
          /\ ObserveMails /\ ObserveKey("a", None)
          /\ UNCHANGED <<lowFrames, tiltSeen, runStart, runMails, gpsRead, unavail,
                         alcoholIn>>
    \/ KeyReset /\ ObserveReset /\ ObserveKey("r", None)
               /\ UNCHANGED <<lowFrames, runStart, runMails, gpsRead, unavail, alcoholIn>>

\* The loop never halts (while True: a frame, then waitKey), and the clock
\* advances between frames up to MaxChallengeTime.
SpecUnanswered ==
    /\ Init
    /\ [][NextUnanswered]_vars
    /\ WF_vars(NextUnanswered)
    /\ SF_vars(UnansweredTick(MaxStep))

\* C26. A challenge that is never answered does not stay active for ever:
\* a challenge active at a time that leaves CHALLENGE_SECONDS on the clock
\* ends as a failed attempt.
ChallengeDeadline ==
    (alcohol_test_active /\ now + CHALLENGE_SECONDS <= MaxChallengeTime)
        ~> (~alcohol_test_active /\ alcohol_test_failed)

\* C27 as stated. After every tick and every key command the latch implies
\* the buzzer, and only the reset command, which clears the latch in the same
\* step, turns the buzzer off while the latch is set.
LatchImpliesBuzzer ==
    [][/\ accident_detected' => buzzer_active'
       /\ (accident_detected /\ buzzer_active /\ ~buzzer_active') =>
            (lastKey' = "r" /\ ~accident_detected')]_vars

\* C27, amended. The same while the program runs; the quit command turns the
\* buzzer off and leaves the latch set.
LatchImpliesBuzzerRunning ==
    [][/\ pc' # "done" => (accident_detected' => buzzer_active')
       /\ (accident_detected /\ buzzer_active /\ ~buzzer_active') =>
            \/ lastKey' = "r" /\ ~accident_detected'
            \/ lastKey' = "q" /\ pc' = "done"]_vars

\* A verification passed while the latch was set: the buzzer is still on.
LatchImpliesBuzzerWitness ==
    /\ pc = "sense" /\ lastKey = "s" /\ ~alcohol_test_failed
    /\ accident_detected /\ buzzer_active

\* C28. At the end of every tick the alert is active exactly when its start
\* time is set; the start time is written only by the tick that takes
\* alert_active from false to true, as the time of that tick, and is not
\* written again while alert_active stays true.
AlertTimestamp ==
    [][/\ pc' = "key" => (alert_active' <=> beep_start_time' # None)
       /\ (beep_start_time' # beep_start_time /\ beep_start_time' # None) =>
            /\ TickStep
            /\ ~alert_active /\ alert_active'
            /\ beep_start_time' = Some(now')
       /\ (alert_active /\ alert_active') => beep_start_time' = beep_start_time]_vars

\* A later tick of a running alert: the start time is the one of the first.
AlertTimestampWitness ==
    /\ pc = "key" /\ trigger_alert /\ alert_active
    /\ beep_start_time # None /\ beep_start_time[1] < now
    /\ ~buzzer_active

====
